---- MODULE Spec2Model ----
(***************************************************************************)
(* Model of the duplicated-Space detector                                  *)
(*   tools/duplicated-spaces/duplicated_spaces/finder.py  (and cli.py)     *)
(* One invocation of find_duplicated_spaces is a state machine: the        *)
(* listing call, the generator get_recent_spaces pulling one entry at a    *)
(* time, the classification of each yielded entry and the blocking README  *)
(* fetch.  Python values are tagged records; Python strings are sequences  *)
(* of one-character strings.                                               *)
(***************************************************************************)
EXTENDS Integers, Sequences, FiniteSets, TLC

VARIABLES
    feed,            \* what api.list_spaces(...) iterates over (the backend's listing)
    source,          \* argument `source` as given by the caller
    days,            \* argument `days`
    no_deep,         \* the CLI flag --no-deep (args.no_deep)
    deep_detection,  \* argument `deep_detection` of find_duplicated_spaces
    now,             \* the clock, datetime.now(timezone.utc)
    pc,              \* position of the invocation in the code
    src,             \* local `source` after finder.py:74
    cutoff,          \* local `cutoff` of get_recent_spaces
    sorted_call,     \* TRUE when spaces_iter came from the sort="created" call
    idx,             \* number of entries pulled from spaces_iter so far
    results,         \* local `results`
    yielded,         \* history: feed positions yielded by get_recent_spaces
    fetchLog,        \* history: the requests.get calls made, with their outcome
    exc,             \* the exception that left find_duplicated_spaces, if any
    listCalls,       \* history: the api.list_spaces calls made, with their outcome
    pending,         \* feed positions whose requests.get has not returned yet
    classified,      \* history: feed positions whose loop body has completed
    output,          \* the lines printed by main
    fn_in,           \* argument of a function applied on its own
    fn_out           \* its successive results

vars == <<feed, source, days, no_deep, deep_detection, now, pc, src, cutoff,
          sorted_call, idx, results, yielded, fetchLog, exc,
          listCalls, pending, classified, output, fn_in, fn_out>>

----------------------------------------------------------------------------
(* Bounds of the model *)

MaxFeedLen == 2

----------------------------------------------------------------------------
(* Python values *)

None == [t |-> "None"]
Str(s) == [t |-> "str", v |-> s]
IntVal(n) == [t |-> "int", v |-> n]
Dict(f) == [t |-> "dict", v |-> f]
\* an aware UTC datetime: whole seconds and microseconds
Dt(s, us) == [t |-> "datetime", s |-> s, us |-> us]
\* a str holding timestamp text: the seconds it denotes, the fraction digits
\* after "." (NoFrac when the text has no "." part) and the text after them
IsoStr(s, frac, suffix) == [t |-> "isostr", s |-> s, frac |-> frac, suffix |-> suffix]
NoFrac == -1

\* truth value of a Python object (`not x`, `x or y`, `if x`)
Truthy(x) ==
    CASE x.t = "None" -> FALSE
      [] x.t = "str" -> x.v # <<>>
      [] x.t = "int" -> x.v # 0
      [] x.t = "dict" -> DOMAIN x.v # {}
      [] OTHER -> TRUE

\* Python `a or b`
Or(a, b) == IF Truthy(a) THEN a ELSE b

----------------------------------------------------------------------------
(* str methods *)

\* the characters str.strip() removes, among the characters a string can
\* hold here (code points 0 to 255): space, \t, \n, \r, \f, the control
\* characters 0x0b (VT), 0x1c (FS), 0x1d (GS), 0x1e (RS), 0x1f (US), and
\* 0x85 (NEL) and 0xa0 (no-break space); the last seven are written as the
\* raw characters
Whitespace == {" ", "\t", "\n", "\r", "\f", "", "", "", "", "",
               "", " "}

RECURSIVE LStrip(_, _)
LStrip(s, chars) ==
    IF s # <<>> /\ Head(s) \in chars THEN LStrip(Tail(s), chars) ELSE s

RECURSIVE RStrip(_, _)
RStrip(s, chars) ==
    IF s # <<>> /\ s[Len(s)] \in chars
    THEN RStrip(SubSeq(s, 1, Len(s) - 1), chars)
    ELSE s

\* s.strip(chars)
Strip(s, chars) == RStrip(LStrip(s, chars), chars)

\* the characters str.lower() changes, among the characters a string can hold
\* here (code points 0 to 255): A to Z and the capitals 0xc0 to 0xde of
\* Latin-1 (0xd7, the multiplication sign, is none), each paired with its
\* lower-case form at the same position of LowerChars
UpperChars == <<"A","B","C","D","E","F","G","H","I","J","K","L","M",
                "N","O","P","Q","R","S","T","U","V","W","X","Y","Z",
                "À","Á","Â","Ã","Ä","Å","Æ","Ç","È","É","Ê","Ë","Ì","Í","Î",
                "Ï","Ð","Ñ","Ò","Ó","Ô","Õ","Ö","Ø","Ù","Ú","Û","Ü","Ý","Þ">>
LowerChars == <<"a","b","c","d","e","f","g","h","i","j","k","l","m",
                "n","o","p","q","r","s","t","u","v","w","x","y","z",
                "à","á","â","ã","ä","å","æ","ç","è","é","ê","ë","ì","í","î",
                "ï","ð","ñ","ò","ó","ô","õ","ö","ø","ù","ú","û","ü","ý","þ">>

LowerChar(c) ==
    IF \E i \in 1..Len(UpperChars) : UpperChars[i] = c
    THEN LowerChars[CHOOSE i \in 1..Len(UpperChars) : UpperChars[i] = c]
    ELSE c

\* s.lower()
Lower(s) == [i \in 1..Len(s) |-> LowerChar(s[i])]

\* s.startswith(p)
StartsWith(s, p) == Len(s) >= Len(p) /\ SubSeq(s, 1, Len(p)) = p

\* s.split(sep, 1)[1] for a one-character sep that occurs in s
RECURSIVE AfterFirst(_, _)
AfterFirst(s, sep) ==
    IF s = <<>> THEN <<>>
    ELSE IF Head(s) = sep THEN Tail(s)
    ELSE AfterFirst(Tail(s), sep)

\* the line boundaries of str.splitlines(), among the characters a string can
\* hold here (code points 0 to 255): \n, \r, \f, the control characters
\* 0x0b (VT), 0x1c (FS), 0x1d (GS), 0x1e (RS), and 0x85 (NEL), the last five
\* written as the raw characters (0x1f and 0xa0 are whitespace but no
\* boundary)
LineBreaks == {"\n", "\r", "\f", "", "", "", "", ""}

\* position of the first line boundary of text, 0 when it has none
FirstBreak(text) ==
    IF \E i \in 1..Len(text) : text[i] \in LineBreaks
    THEN CHOOSE i \in 1..Len(text) :
             text[i] \in LineBreaks /\ \A j \in 1..(i - 1) : text[j] \notin LineBreaks
    ELSE 0

\* text.splitlines(): the lines of text without their line ends ("\r\n" is
\* one boundary; a final boundary opens no further line)
RECURSIVE SplitLines(_)
SplitLines(text) ==
    IF text = <<>> THEN <<>>
    ELSE LET b == FirstBreak(text) IN
         IF b = 0 THEN <<text>>
         ELSE LET width == IF text[b] = "\r" /\ b < Len(text) /\ text[b + 1] = "\n"
                           THEN 2 ELSE 1
              IN  <<SubSeq(text, 1, b - 1)>> \o SplitLines(SubSeq(text, b + width, Len(text)))

\* x.strip().strip("/ ") as applied to the source and to every claim
TrimId(s) == Strip(Strip(s, Whitespace), {"/", " "})

----------------------------------------------------------------------------
(* iso_to_datetime *)

ValueError == [t |-> "ValueError"]

\* datetime.strptime(value, fmt) for the two formats of the code:
\* "%Y-%m-%dT%H:%M:%S.%fZ" (withFraction) and "%Y-%m-%dT%H:%M:%SZ"; the
\* literal characters of a format match in either case, so the text may end
\* in "Z" or in "z"
Strptime(value, withFraction) ==
    IF value.t = "isostr" /\ value.suffix \in {"Z", "z"}
       /\ ((value.frac # NoFrac) <=> withFraction)
    THEN Dt(value.s, IF value.frac = NoFrac THEN 0 ELSE value.frac)
    ELSE ValueError

iso_to_datetime(value) ==
    IF Strptime(value, TRUE) # ValueError
    THEN Strptime(value, TRUE)
    ELSE Strptime(value, FALSE)

\* timedelta(days=1) in seconds
DaySeconds == 86400

\* variant of MinusDays: the window is added to the clock
PlusDays(dt, d) == Dt(dt.s + d * DaySeconds, dt.us)

\* datetime - timedelta(days=d)
MinusDays(dt, d) == Dt(dt.s - d * DaySeconds, dt.us)

\* variant of DtGE: the strict comparison a > b
DtGT(a, b) == a.s > b.s \/ (a.s = b.s /\ a.us > b.us)

\* a >= b on aware datetimes
DtGE(a, b) == a.s > b.s \/ (a.s = b.s /\ a.us >= b.us)

----------------------------------------------------------------------------
(* readme_frontmatter_duplicated_from *)

Dashes == <<"-","-","-">>
KeyPrefix == <<"d","u","p","l","i","c","a","t","e","d","_","f","r","o","m",":">>

\* variant of ScanLines: the closing --- line clears the flag and the scan
\* goes on, so that a later block is searched too
RECURSIVE ScanLinesNoStop(_, _)
ScanLinesNoStop(lines, in_frontmatter) ==
    IF lines = <<>> THEN None
    ELSE LET line == Head(lines) IN
         IF Strip(line, Whitespace) = Dashes
         THEN ScanLinesNoStop(Tail(lines), ~in_frontmatter)
         ELSE IF in_frontmatter /\ StartsWith(Strip(line, Whitespace), KeyPrefix)
              THEN LET value == Strip(Strip(AfterFirst(line, ":"), Whitespace), {"'", "\""})
                   IN  IF value # <<>> THEN Str(value) ELSE None
              ELSE ScanLinesNoStop(Tail(lines), in_frontmatter)

\* the for loop over lines (finder.py:37-46)
RECURSIVE ScanLines(_, _)
ScanLines(lines, in_frontmatter) ==
    IF lines = <<>> THEN None
    ELSE LET line == Head(lines) IN
         IF Strip(line, Whitespace) = Dashes
         THEN IF in_frontmatter THEN None ELSE ScanLines(Tail(lines), TRUE)
         ELSE IF in_frontmatter /\ StartsWith(Strip(line, Whitespace), KeyPrefix)
              THEN LET value == Strip(Strip(AfterFirst(line, ":"), Whitespace), {"'", "\""})
                   IN  IF value # <<>> THEN Str(value) ELSE None
              ELSE ScanLines(Tail(lines), in_frontmatter)

\* variant of FetchedLines: the status code is not looked at
ReadmeIgnoringStatus(resp) ==
    IF resp.kind = "RequestException" THEN <<>> ELSE SplitLines(resp.text)

\* outcome of requests.get(url, timeout=10): an exception of the requests
\* library (connection error, timeout, ...) or a response
RequestException == [kind |-> "RequestException", status_code |-> 0, text |-> <<>>]
Response(status, text) == [kind |-> "response", status_code |-> status, text |-> text]

\* the lines handed to the scan: none when the fetch failed (finder.py:27-35)
FetchedLines(resp) ==
    IF resp.kind = "RequestException" THEN <<>>
    ELSE IF resp.status_code # 200 THEN <<>>
    ELSE SplitLines(resp.text)

\* variant of readme_frontmatter_duplicated_from: frontmatter is looked for
\* only when the document starts with the --- line
ScanFromFirstLine(resp) ==
    IF FetchedLines(resp) # <<>> /\ Strip(FetchedLines(resp)[1], Whitespace) = Dashes
    THEN ScanLines(FetchedLines(resp), FALSE)
    ELSE None

readme_frontmatter_duplicated_from(resp) == ScanLines(FetchedLines(resp), FALSE)

----------------------------------------------------------------------------
(* Attribute reads of a listed Space *)

\* getattr(space, "id", None) or getattr(space, "repo_id", None)
SpaceId(space) == Or(space.id, space.repo_id)

\* getattr(space, "cardData", None) or getattr(space, "card_data", None)
Card(space) == Or(space.cardData, space.card_data)

\* getattr(space, "created_at", None) or getattr(space, "createdAt", None)
CreatedAtRaw(space) == Or(space.created_at, space.createdAt)

\* created_at_raw if isinstance(created_at_raw, datetime) else iso_to_datetime(str(created_at_raw))
CreatedAt(raw) == IF raw.t = "datetime" THEN raw ELSE iso_to_datetime(raw)

----------------------------------------------------------------------------
(* Classification of one Space *)

MetadataKeys == <<"duplicated_from", "duplicatedFrom", "duplicated-from">>

\* variant of KeyLoop: a string that trims to nothing does not end the loop
RECURSIVE KeyLoopSkipEmpty(_, _)
KeyLoopSkipEmpty(card, i) ==
    IF i > Len(MetadataKeys) THEN None
    ELSE IF /\ MetadataKeys[i] \in DOMAIN card.v /\ card.v[MetadataKeys[i]].t = "str"
            /\ TrimId(card.v[MetadataKeys[i]].v) # <<>>
         THEN Str(TrimId(card.v[MetadataKeys[i]].v))
         ELSE KeyLoopSkipEmpty(card, i + 1)

\* for key in (...): if key in card and isinstance(card[key], str): ...; break
RECURSIVE KeyLoop(_, _)
KeyLoop(card, i) ==
    IF i > Len(MetadataKeys) THEN None
    ELSE IF MetadataKeys[i] \in DOMAIN card.v /\ card.v[MetadataKeys[i]].t = "str"
         THEN Str(TrimId(card.v[MetadataKeys[i]].v))
         ELSE KeyLoop(card, i + 1)

\* duplicated_from_value after the card lookup (finder.py:81-87)
CardClaim(space) ==
    IF Card(space).t = "dict" THEN KeyLoop(Card(space), 1) ELSE None

\* variants of NeedsFetch: the fallback taken whatever the card says, never
\* taken, taken whatever the flag says
NeedsFetchAlways(value, deep) == deep
NeedsFetchNever(value, deep) == FALSE
NeedsFetchIgnoreDeep(value, deep) == ~Truthy(value)

\* `not duplicated_from_value and deep_detection` (finder.py:89)
NeedsFetch(value, deep) == ~Truthy(value) /\ deep

\* duplicated_from_value after the README fallback (finder.py:90-92)
ReadmeClaim(resp) ==
    LET value == readme_frontmatter_duplicated_from(resp)
    IN  IF Truthy(value) THEN Str(TrimId(value.v)) ELSE value

\* variant of IsMatch: the claim is compared without being tested first
IsMatchAnyString(value, s) == value.t = "str" /\ Lower(value.v) = Lower(s)

\* variant of IsMatch: comparison without .lower()
IsMatchCaseSensitive(value, s) == Truthy(value) /\ value.v = s

\* `duplicated_from_value and duplicated_from_value.lower() == source.lower()`
IsMatch(value, s) == Truthy(value) /\ Lower(value.v) = Lower(s)

\* variant of Collect: a match is kept only while the result is empty
CollectFirstOnly(res, space_id, value, s) ==
    IF IsMatch(value, s) /\ res = <<>> THEN Append(res, space_id.v) ELSE res

\* variant of Collect: results.insert(0, space_id)
CollectFront(res, space_id, value, s) ==
    IF IsMatch(value, s) THEN <<space_id.v>> \o res ELSE res

\* results.append(space_id) when the claim matches (finder.py:94-95)
Collect(res, space_id, value, s) ==
    IF IsMatch(value, s) THEN Append(res, space_id.v) ELSE res

----------------------------------------------------------------------------
(* Inputs: the caller's arguments, the clock, the backend's listing and    *)
(* the README responses                                                    *)

NowSecs == 200000
NowMicros == 500

Nows == {Dt(NowSecs, NowMicros)}
Days == {0, 1}
Sources == { <<"A","/","B">>, <<" ","/","a","/","b","/">>, <<"/">> }

\* creation timestamps, relative to the clock and the one-day window
TNow == Dt(NowSecs, NowMicros)
TAtCutoff == Dt(NowSecs - DaySeconds, NowMicros)
TSecondBefore == Dt(NowSecs - DaySeconds - 1, NowMicros)
TIsoFraction == IsoStr(NowSecs - DaySeconds, NowMicros, "Z")
TIsoWhole == IsoStr(NowSecs - DaySeconds, NoFrac, "Z")
TIsoOffset == IsoStr(NowSecs, NoFrac, "+00:00")
TIsoLower == IsoStr(NowSecs, NoFrac, "z")

\* card metadata
ClaimSame == <<"a","/","b"," ">>
ClaimOther == <<"o","/","x">>
ClaimBlank == <<" ","/"," ">>
CardSame == Dict("duplicated_from" :> Str(ClaimSame))
CardOther == Dict("duplicatedFrom" :> Str(ClaimOther))
CardBlank == Dict("duplicated_from" :> Str(ClaimBlank) @@ "duplicated-from" :> Str(ClaimSame))
CardNonStr == Dict("duplicated_from" :> IntVal(42) @@ "duplicatedFrom" :> Str(ClaimSame)
                   @@ "duplicated-from" :> Str(ClaimOther))
CardNoKey == Dict("license" :> Str(<<"m","i","t">>))
CardEmpty == Dict(<<>>)

\* a listed Space without its identifier: which attribute carries the id
\* ("id", "repo_id" or "none") is filled in per feed position
Body(idAttr, created_at, createdAt, cardData, card_data) ==
    [idAttr |-> idAttr, created_at |-> created_at, createdAt |-> createdAt,
     cardData |-> cardData, card_data |-> card_data]

Bodies ==
    { \* classification cases, all inside the window
      Body("id", TNow, None, None, None),
      Body("id", TNow, None, CardEmpty, CardSame),
      Body("id", TNow, None, CardOther, None),
      Body("id", TNow, None, CardBlank, None),
      Body("id", TNow, None, CardNonStr, None),
      Body("id", TNow, None, CardNoKey, None),
      \* window cases
      Body("id", None, None, CardSame, None),
      Body("id", TAtCutoff, None, CardSame, None),
      Body("id", TSecondBefore, None, CardSame, None),
      Body("id", TSecondBefore, None, None, None),
      Body("id", None, TIsoFraction, CardSame, None),
      Body("id", TIsoWhole, None, CardSame, None),
      Body("id", TIsoOffset, None, CardSame, None),
      Body("id", TIsoLower, None, CardSame, None),
      \* identifier cases
      Body("none", TNow, None, None, None),
      Body("repo_id", TNow, None, CardSame, None) }

\* identifiers are unique in a listing: position i carries "u/<i>"
Digits == <<"1","2","3","4","5","6","7","8","9">>
IdAt(i) == <<"u","/",Digits[i]>>

Space(i, b) ==
    [id |-> IF b.idAttr = "id" THEN Str(IdAt(i)) ELSE None,
     repo_id |-> IF b.idAttr = "repo_id" THEN Str(IdAt(i)) ELSE None,
     created_at |-> b.created_at, createdAt |-> b.createdAt,
     cardData |-> b.cardData, card_data |-> b.card_data]

Feeds ==
    UNION { { [i \in 1..n |-> Space(i, bs[i])] : bs \in [1..n -> Bodies] } : n \in 0..MaxFeedLen }

\* README documents
Line(s) == s \o <<"\n">>
ReadmeSame ==
    Line(Dashes) \o Line(<<"t",":"," ","x">>)
    \o Line(KeyPrefix \o <<" ","\"","A","/","b","/","\"">>) \o Line(Dashes) \o <<"x">>
ReadmeOther == Line(Dashes) \o Line(KeyPrefix \o <<" ">> \o ClaimOther) \o Dashes
ReadmeAfter == Line(Dashes) \o Line(<<"t",":"," ","x">>) \o Line(Dashes) \o KeyPrefix \o ClaimSame

ReadmeBlank == Line(Dashes) \o Line(KeyPrefix \o <<" ","/"," ">>) \o Dashes

Responses ==
    { RequestException, Response(404, ReadmeSame), Response(200, ReadmeSame),
      Response(200, ReadmeOther), Response(200, ReadmeAfter), Response(200, ReadmeBlank) }

----------------------------------------------------------------------------
(* The invocation *)

NoCutoff == None

Init ==
    /\ feed \in Feeds
    /\ source \in Sources
    /\ days \in Days
    /\ no_deep \in BOOLEAN
    /\ deep_detection = TRUE
    /\ now \in Nows
    /\ pc = "start"
    /\ src = source
    /\ cutoff = NoCutoff
    /\ sorted_call = TRUE
    /\ idx = 0
    /\ results = <<>>
    /\ yielded = <<>>
    /\ fetchLog = <<>>
    /\ exc = "none"
    /\ listCalls = <<>>
    /\ pending = {}
    /\ classified = <<>>
    /\ output = <<>>
    /\ fn_in = <<>>
    /\ fn_out = <<>>

inputs == <<feed, source, days, no_deep, now>>
pure == <<fn_in, fn_out>>

\* variant of Invoke: the result list outlives the call, as a module-level
\* list or a mutable default argument would
InvokeKeepResults ==
    /\ pc = "start"
    /\ deep_detection' = ~no_deep
    /\ src' = TrimId(source)
    /\ results' = results
    /\ cutoff' = MinusDays(now, days)
    /\ pc' = "list_sorted"
    /\ UNCHANGED <<inputs, sorted_call, idx, yielded, fetchLog, exc>>
    /\ UNCHANGED <<listCalls, pending, classified, output, pure>>

\* main calls find_duplicated_spaces (cli.py:47-52), which runs up to the
\* first next() on the generator: finder.py:74-76 and the cutoff of
\* get_recent_spaces (finder.py:51)
Invoke ==
    /\ pc = "start"
    /\ deep_detection' = ~no_deep
    /\ src' = TrimId(source)
    /\ results' = <<>>
    /\ cutoff' = MinusDays(now, days)
    /\ pc' = "list_sorted"
    /\ UNCHANGED <<inputs, sorted_call, idx, yielded, fetchLog, exc>>
    /\ UNCHANGED <<listCalls, pending, classified, output, pure>>

\* variant of ListSorted: any error of the sorted call leads to the retry
ListSortedRetryAny ==
    /\ pc = "list_sorted"
    /\ \E outcome \in {"ok", "TypeError", "error"} :
         /\ pc' = IF outcome = "ok" THEN "iter" ELSE "list_unsorted"
         /\ exc' = exc
         /\ listCalls' = Append(listCalls, [sort |-> TRUE, outcome |-> outcome])
    /\ sorted_call' = TRUE
    /\ UNCHANGED <<inputs, deep_detection, src, cutoff, idx, results, yielded, fetchLog>>
    /\ UNCHANGED <<pending, classified, output, pure>>

\* variant of ListSorted: the TypeError of the sorted call is not caught
ListSortedNoFallback ==
    /\ pc = "list_sorted"
    /\ \E outcome \in {"ok", "TypeError", "error"} :
         /\ pc' = IF outcome = "ok" THEN "iter" ELSE "raised"
         /\ exc' = CASE outcome = "ok" -> exc
                     [] outcome = "TypeError" -> "TypeError"
                     [] OTHER -> "ListingError"
         /\ listCalls' = Append(listCalls, [sort |-> TRUE, outcome |-> outcome])
    /\ sorted_call' = TRUE
    /\ UNCHANGED <<inputs, deep_detection, src, cutoff, idx, results, yielded, fetchLog>>
    /\ UNCHANGED <<pending, classified, output, pure>>

\* api.list_spaces(full=True, sort="created", direction=-1) (finder.py:52-54)
ListSorted ==
    /\ pc = "list_sorted"
    /\ \E outcome \in {"ok", "TypeError", "error"} :
         /\ pc' = CASE outcome = "ok" -> "iter"
                    [] outcome = "TypeError" -> "list_unsorted"
                    [] OTHER -> "raised"
         /\ exc' = IF outcome = "error" THEN "ListingError" ELSE exc
         /\ listCalls' = Append(listCalls, [sort |-> TRUE, outcome |-> outcome])
    /\ sorted_call' = TRUE
    /\ UNCHANGED <<inputs, deep_detection, src, cutoff, idx, results, yielded, fetchLog>>
    /\ UNCHANGED <<pending, classified, output, pure>>

\* api.list_spaces(full=True) (finder.py:55)
ListUnsorted ==
    /\ pc = "list_unsorted"
    /\ \E outcome \in {"ok", "TypeError", "error"} :
         /\ pc' = IF outcome = "ok" THEN "iter" ELSE "raised"
         /\ exc' = CASE outcome = "ok" -> exc
                     [] outcome = "TypeError" -> "TypeError"
                     [] OTHER -> "ListingError"
         /\ listCalls' = Append(listCalls, [sort |-> FALSE, outcome |-> outcome])
    /\ sorted_call' = FALSE
    /\ UNCHANGED <<inputs, deep_detection, src, cutoff, idx, results, yielded, fetchLog>>
    /\ UNCHANGED <<pending, classified, output, pure>>

\* variant of Window: the creation time is parsed but not compared
WindowNoCutoff(space, cut) ==
    IF ~Truthy(CreatedAtRaw(space)) THEN "yield"
    ELSE IF CreatedAt(CreatedAtRaw(space)) = ValueError THEN "ValueError"
    ELSE "yield"

\* variant of Window: a Space without a timestamp is left out
WindowSkipMissing(space, cut) ==
    IF ~Truthy(CreatedAtRaw(space)) THEN "continue"
    ELSE IF CreatedAt(CreatedAtRaw(space)) = ValueError THEN "ValueError"
    ELSE IF DtGE(CreatedAt(CreatedAtRaw(space)), cut) THEN "yield"
    ELSE "continue"

\* variant of Window: an unparseable timestamp is passed over in silence
WindowSkipUnparsable(space, cut) ==
    IF ~Truthy(CreatedAtRaw(space)) THEN "yield"
    ELSE IF CreatedAt(CreatedAtRaw(space)) = ValueError THEN "continue"
    ELSE IF DtGE(CreatedAt(CreatedAtRaw(space)), cut) THEN "yield"
    ELSE "continue"

\* what the loop body of get_recent_spaces does with one Space (finder.py:58-69)
Window(space, cut) ==
    IF ~Truthy(CreatedAtRaw(space)) THEN "yield"
    ELSE IF CreatedAt(CreatedAtRaw(space)) = ValueError THEN "ValueError"
    ELSE IF DtGE(CreatedAt(CreatedAtRaw(space)), cut) THEN "yield"
    ELSE "continue"

\* variant of NextSpace: the scan stops at the first Space older than the cutoff
NextSpaceBreak ==
    /\ pc = "iter"
    /\ \E outcome \in {"next", "error"} :
         IF outcome = "error"
         THEN /\ pc' = "raised" /\ exc' = "IterationError"
              /\ UNCHANGED <<idx, yielded>>
         ELSE IF idx = Len(feed)
         THEN /\ pc' = "returned"
              /\ UNCHANGED <<idx, yielded, exc>>
         ELSE LET w == Window(feed[idx + 1], cutoff) IN
              /\ idx' = idx + 1
              /\ pc' = CASE w = "yield" -> "classify"
                         [] w = "continue" -> "returned"
                         [] OTHER -> "raised"
              /\ yielded' = IF w = "yield" THEN Append(yielded, idx + 1) ELSE yielded
              /\ exc' = IF w = "ValueError" THEN "ValueError" ELSE exc
    /\ UNCHANGED <<inputs, deep_detection, src, cutoff, sorted_call, results, fetchLog>>
    /\ UNCHANGED <<listCalls, pending, classified, output, pure>>

\* variant of NextSpace: the generator is drained before any Space is
\* classified, as list(get_recent_spaces(...)) would
NextSpaceDrain ==
    /\ pc = "iter"
    /\ \E outcome \in {"next", "error"} :
         IF outcome = "error"
         THEN /\ pc' = "raised" /\ exc' = "IterationError"
              /\ UNCHANGED <<idx, yielded>>
         ELSE IF idx = Len(feed)
         THEN /\ pc' = "returned"
              /\ UNCHANGED <<idx, yielded, exc>>
         ELSE LET w == Window(feed[idx + 1], cutoff) IN
              /\ idx' = idx + 1
              /\ pc' = CASE w = "yield" -> (IF idx + 1 = Len(feed) THEN "classify" ELSE "iter")
                         [] w = "continue" -> "iter"
                         [] OTHER -> "raised"
              /\ yielded' = IF w = "yield" THEN Append(yielded, idx + 1) ELSE yielded
              /\ exc' = IF w = "ValueError" THEN "ValueError" ELSE exc
    /\ UNCHANGED <<inputs, deep_detection, src, cutoff, sorted_call, results, fetchLog>>
    /\ UNCHANGED <<listCalls, pending, classified, output, pure>>

\* variant of NextSpace: the cutoff is taken from the clock again at each entry
NextSpaceMovingCutoff ==
    /\ pc = "iter"
    /\ \E outcome \in {"next", "error"} :
         IF outcome = "error"
         THEN /\ pc' = "raised" /\ exc' = "IterationError"
              /\ UNCHANGED <<idx, yielded>>
         ELSE IF idx = Len(feed)
         THEN /\ pc' = "returned"
              /\ UNCHANGED <<idx, yielded, exc>>
         ELSE LET w == Window(feed[idx + 1], MinusDays(now, days)) IN
              /\ idx' = idx + 1
              /\ pc' = CASE w = "yield" -> "classify"
                         [] w = "continue" -> "iter"
                         [] OTHER -> "raised"
              /\ yielded' = IF w = "yield" THEN Append(yielded, idx + 1) ELSE yielded
              /\ exc' = IF w = "ValueError" THEN "ValueError" ELSE exc
    /\ UNCHANGED <<inputs, deep_detection, src, cutoff, sorted_call, results, fetchLog>>
    /\ UNCHANGED <<listCalls, pending, classified, output, pure>>

\* variant of NextSpace: an error of the listing while it is iterated ends
\* the generator in silence, as a bare `except: return` around the loop would
NextSpaceSwallow ==
    /\ pc = "iter"
    /\ \E outcome \in {"next", "error"} :
         IF outcome = "error" \/ idx = Len(feed)
         THEN /\ pc' = "returned"
              /\ UNCHANGED <<idx, yielded, exc>>
         ELSE LET w == Window(feed[idx + 1], cutoff) IN
              /\ idx' = idx + 1
              /\ pc' = CASE w = "yield" -> "classify"
                         [] w = "continue" -> "iter"
                         [] OTHER -> "raised"
              /\ yielded' = IF w = "yield" THEN Append(yielded, idx + 1) ELSE yielded
              /\ exc' = IF w = "ValueError" THEN "ValueError" ELSE exc
    /\ UNCHANGED <<inputs, deep_detection, src, cutoff, sorted_call, results, fetchLog>>
    /\ UNCHANGED <<listCalls, pending, classified, output, pure>>

\* one next() on spaces_iter inside get_recent_spaces (finder.py:57-69): the
\* listing may fail while it is iterated; exhaustion ends the generator and
\* the loop of find_duplicated_spaces, which returns results (finder.py:97)
NextSpace ==
    /\ pc = "iter"
    /\ \E outcome \in {"next", "error"} :
         IF outcome = "error"
         THEN /\ pc' = "raised" /\ exc' = "IterationError"
              /\ UNCHANGED <<idx, yielded>>
         ELSE IF idx = Len(feed)
         THEN /\ pc' = "returned"
              /\ UNCHANGED <<idx, yielded, exc>>
         ELSE LET w == Window(feed[idx + 1], cutoff) IN
              /\ idx' = idx + 1
              /\ pc' = CASE w = "yield" -> "classify"
                         [] w = "continue" -> "iter"
                         [] OTHER -> "raised"
              /\ yielded' = IF w = "yield" THEN Append(yielded, idx + 1) ELSE yielded
              /\ exc' = IF w = "ValueError" THEN "ValueError" ELSE exc
    /\ UNCHANGED <<inputs, deep_detection, src, cutoff, sorted_call, results, fetchLog>>
    /\ UNCHANGED <<listCalls, pending, classified, output, pure>>

\* variant of Classify: a Space without id ends the loop (break for continue)
ClassifyStopOnNoId ==
    /\ pc = "classify"
    /\ \E space_id \in {SpaceId(feed[idx])}, value \in {CardClaim(feed[idx])} :
           IF ~Truthy(space_id)
           THEN /\ pc' = "returned" /\ classified' = Append(classified, idx)
                /\ UNCHANGED <<results, pending>>
           ELSE IF NeedsFetch(value, deep_detection)
                THEN /\ pc' = "fetching" /\ pending' = pending \cup {idx}
                     /\ UNCHANGED <<results, classified>>
                ELSE /\ pc' = "iter" /\ classified' = Append(classified, idx)
                     /\ results' = Collect(results, space_id, value, src)
                     /\ UNCHANGED pending
    /\ UNCHANGED <<inputs, deep_detection, src, cutoff, sorted_call, idx, yielded, fetchLog, exc>>
    /\ UNCHANGED <<listCalls, output, pure>>

\* variant of Classify: the README request is started and the loop goes on
\* without waiting for it
ClassifyNoWait ==
    /\ pc = "classify"
    /\ LET space == feed[idx]
           space_id == SpaceId(space)
           value == CardClaim(space)
       IN  IF ~Truthy(space_id)
           THEN pc' = "iter" /\ UNCHANGED <<results, pending>>
           ELSE IF NeedsFetch(value, deep_detection)
                THEN pc' = "iter" /\ pending' = pending \cup {idx} /\ UNCHANGED results
                ELSE /\ pc' = "iter" /\ UNCHANGED pending
                     /\ results' = Collect(results, space_id, value, src)
    /\ classified' = Append(classified, idx)
    /\ UNCHANGED <<inputs, deep_detection, src, cutoff, sorted_call, idx, yielded, fetchLog, exc>>
    /\ UNCHANGED <<listCalls, output, pure>>

\* the loop body of find_duplicated_spaces up to the README fetch
\* (finder.py:77-95); space_id and value are its locals
Classify ==
    /\ pc = "classify"
    /\ \E space_id \in {SpaceId(feed[idx])}, value \in {CardClaim(feed[idx])} :
           IF ~Truthy(space_id)
           THEN /\ pc' = "iter" /\ classified' = Append(classified, idx)
                /\ UNCHANGED <<results, pending>>
           ELSE IF NeedsFetch(value, deep_detection)
                THEN /\ pc' = "fetching" /\ pending' = pending \cup {idx}
                     /\ UNCHANGED <<results, classified>>
                ELSE /\ pc' = "iter" /\ classified' = Append(classified, idx)
                     /\ results' = Collect(results, space_id, value, src)
                     /\ UNCHANGED pending
    /\ UNCHANGED <<inputs, deep_detection, src, cutoff, sorted_call, idx, yielded, fetchLog, exc>>
    /\ UNCHANGED <<listCalls, output, pure>>

\* requests.get returns or fails, the frontmatter is scanned and the claim
\* compared (finder.py:90-95 with finder.py:26-46)
FetchReturn ==
    /\ pc = "fetching"
    /\ \E resp \in Responses :
         /\ fetchLog' = Append(fetchLog, [idx |-> idx, space_id |-> SpaceId(feed[idx]).v, resp |-> resp])
         /\ results' = Collect(results, SpaceId(feed[idx]), ReadmeClaim(resp), src)
    /\ pending' = pending \ {idx}
    /\ classified' = Append(classified, idx)
    /\ pc' = "iter"
    /\ UNCHANGED <<inputs, deep_detection, src, cutoff, sorted_call, idx, yielded, exc>>
    /\ UNCHANGED <<listCalls, output, pure>>

----------------------------------------------------------------------------
(* main after find_duplicated_spaces has returned *)

UrlPrefix == <<"h","t","t","p","s",":","/","/","h","u","g","g","i","n","g","f","a","c","e",
               ".","c","o","/","s","p","a","c","e","s","/">>

\* f"Found {len(duplicated)} Space(s) duplicated from {args.source} in the last {args.days} days:\n"
FoundLine(n, s, d) == [line |-> "Found", count |-> n, source |-> s, days |-> d]
\* f"https://huggingface.co/spaces/{sid}"
UrlLine(sid) == [line |-> "url", text |-> UrlPrefix \o sid]
\* f"No public Spaces duplicated from {args.source} in the last {args.days} days."
NoMatchLine(s, d) == [line |-> "No public Spaces", source |-> s, days |-> d]

\* variant of Printed: the URLs are printed last match first
PrintedReversed(duplicated, s, d) ==
    IF duplicated # <<>>
    THEN <<FoundLine(Len(duplicated), s, d)>>
         \o [j \in 1..Len(duplicated) |-> UrlLine(duplicated[Len(duplicated) + 1 - j])]
    ELSE <<NoMatchLine(s, d)>>

\* the print statements of main (cli.py:54-63)
Printed(duplicated, s, d) ==
    IF duplicated # <<>>
    THEN <<FoundLine(Len(duplicated), s, d)>>
         \o [j \in 1..Len(duplicated) |-> UrlLine(duplicated[j])]
    ELSE <<NoMatchLine(s, d)>>

\* main prints what find_duplicated_spaces returned and ends (cli.py:54-63)
PrintResult ==
    /\ pc = "returned"
    /\ output' = Printed(results, source, days)
    /\ pc' = "exit0"
    /\ UNCHANGED <<inputs, deep_detection, src, cutoff, sorted_call, idx, results, yielded, fetchLog, exc>>
    /\ UNCHANGED <<listCalls, pending, classified, pure>>

Next ==
    Invoke \/ ListSorted \/ ListUnsorted \/ NextSpace \/ Classify \/ FetchReturn \/ PrintResult

Spec == Init /\ [][Next]_vars

----------------------------------------------------------------------------
(* Vocabulary of the properties *)

Range(s) == { s[i] : i \in 1..Len(s) }

\* number of README fetches issued so far for feed position i
FetchCount(i) ==
    Cardinality({ j \in 1..Len(fetchLog) : fetchLog[j].idx = i })
    + (IF pc = "fetching" /\ idx = i THEN 1 ELSE 0)

\* position i was yielded by the window filter and its classification is over
Classified(i) ==
    i \in Range(yielded) /\ (i < idx \/ pc \in {"iter", "returned", "exit0"})

HasId(space) == space.id # None \/ space.repo_id # None
IdOf(space) == IF space.id # None THEN space.id.v ELSE space.repo_id.v
Reported(i) == HasId(feed[i]) /\ IdOf(feed[i]) \in Range(results)

\* the card metadata of a Space, when it is a mapping
CardKeys(space) ==
    IF space.cardData.t = "dict" /\ DOMAIN space.cardData.v # {} THEN space.cardData.v
    ELSE IF space.card_data.t = "dict" THEN space.card_data.v
    ELSE <<>>

\* recognized keys present in the card / present with a string value
RecognizedKeys(space) ==
    { k \in 1..Len(MetadataKeys) : MetadataKeys[k] \in DOMAIN CardKeys(space) }
StringKeys(space) ==
    { k \in RecognizedKeys(space) : CardKeys(space)[MetadataKeys[k]].t = "str" }

\* the string under the first recognized key that holds a string
FirstStringValue(space) ==
    CardKeys(space)[MetadataKeys[CHOOSE k \in StringKeys(space) :
                                   \A m \in StringKeys(space) : k <= m]].v

\* the entry's timestamp lies in the window [now - days, ...), or it has none
HasTimestamp(space) == space.created_at # None \/ space.createdAt # None
TimestampOf(space) == IF space.created_at # None THEN space.created_at ELSE space.createdAt
Parses(ts) == ts.t = "datetime" \/ ts.suffix \in {"Z", "z"}
MicrosOf(ts) == IF ts.t = "datetime" THEN ts.us ELSE IF ts.frac = NoFrac THEN 0 ELSE ts.frac
AtOrAfterCutoff(ts) ==
    \/ ts.s > now.s - days * DaySeconds
    \/ ts.s = now.s - days * DaySeconds /\ MicrosOf(ts) >= now.us
InWindow(space) ==
    ~HasTimestamp(space) \/ (Parses(TimestampOf(space)) /\ AtOrAfterCutoff(TimestampOf(space)))

\* trim surrounding whitespace, then surrounding slashes and spaces, then ignore case
NormalizeId(s) == Lower(TrimId(s))

\* the response logged for position i
ResponseOf(i) == fetchLog[CHOOSE j \in 1..Len(fetchLog) : fetchLog[j].idx = i].resp

----------------------------------------------------------------------------
(* C1 *)

\* C1 as stated: no README fetch is ever issued for an entry whose card holds
\* a string under a recognized key, whatever the string is.
C1_NoFetchForAnyString ==
    \A i \in 1..Len(feed) : StringKeys(feed[i]) # {} => FetchCount(i) = 0

\* C1 (amended): an entry whose first string-valued recognized key holds a
\* value that is not empty after trimming is never fetched, with or without
\* deep detection, and once classified it is reported exactly when that value
\* equals the source after normalization.
C1_MetadataClaimNoFetch ==
    \A i \in 1..Len(feed) :
        (StringKeys(feed[i]) # {} /\ TrimId(FirstStringValue(feed[i])) # <<>>)
        => /\ FetchCount(i) = 0
           /\ (Classified(i) /\ HasId(feed[i]))
              => (Reported(i) <=> NormalizeId(FirstStringValue(feed[i])) = NormalizeId(source))

C1_Witness ==
    /\ pc = "returned" /\ deep_detection
    /\ \E i \in 1..Len(feed) :
         /\ StringKeys(feed[i]) # {} /\ TrimId(FirstStringValue(feed[i])) # <<>>
         /\ Classified(i) /\ Reported(i) /\ FetchCount(i) = 0

----------------------------------------------------------------------------
(* C2 *)

\* C2 as stated: with deep detection on, a finished invocation has fetched the
\* README of every in-window entry without a recognized key exactly once.
C2_ExactlyOneFetchEveryEntry ==
    (pc = "returned" /\ deep_detection)
    => \A i \in 1..Len(feed) :
         (InWindow(feed[i]) /\ RecognizedKeys(feed[i]) = {}) => FetchCount(i) = 1

\* C2 (amended): with deep detection on, an in-window entry that has an id
\* and no recognized key is never fetched twice, and has been fetched exactly
\* once when its classification is over and when the invocation returns.
C2_ExactlyOneFetch ==
    \A i \in 1..Len(feed) :
        (deep_detection /\ HasId(feed[i]) /\ InWindow(feed[i]) /\ RecognizedKeys(feed[i]) = {})
        => /\ FetchCount(i) <= 1
           /\ (Classified(i) \/ pc = "returned") => FetchCount(i) = 1

C2_Witness ==
    /\ pc = "returned" /\ deep_detection
    /\ \E i \in 1..Len(feed) :
         /\ HasId(feed[i]) /\ InWindow(feed[i]) /\ RecognizedKeys(feed[i]) = {}
         /\ FetchCount(i) = 1

----------------------------------------------------------------------------
(* C3 *)

\* C3: under --no-deep no README fetch is attempted at any point of the
\* invocation and no entry without a recognized key is reported.
C3_NoDeepNoFetch ==
    no_deep => /\ fetchLog = <<>> /\ pc # "fetching"
               /\ (pc # "start" => ~deep_detection)
               /\ \A i \in 1..Len(feed) : RecognizedKeys(feed[i]) = {} => ~Reported(i)

C3_Witness ==
    /\ pc = "returned" /\ no_deep
    /\ \E i \in 1..Len(feed) :
         RecognizedKeys(feed[i]) = {} /\ HasId(feed[i]) /\ Classified(i)

----------------------------------------------------------------------------
(* C4 *)

\* the claim resolved for a classified position: the README's when the README
\* was fetched, else the string under the first string-valued recognized key
ResolvedClaim(i) ==
    IF FetchCount(i) > 0 THEN readme_frontmatter_duplicated_from(ResponseOf(i))
    ELSE IF StringKeys(feed[i]) # {} THEN Str(FirstStringValue(feed[i]))
    ELSE None

\* C4 as stated: when the invocation returns, an in-window entry is reported
\* if and only if its resolved claim equals the source after normalization.
C4_MatchIffEqual ==
    pc = "returned"
    => \A i \in 1..Len(feed) :
         (HasId(feed[i]) /\ InWindow(feed[i]))
         => (Reported(i) <=> /\ ResolvedClaim(i) # None
                             /\ NormalizeId(ResolvedClaim(i).v) = NormalizeId(source))

\* C4 (amended): an in-window entry is reported if and only if its resolved
\* claim is not empty after normalization and equals the normalized source.
C4_MatchIffEqualNonEmpty ==
    \A i \in 1..Len(feed) :
        (HasId(feed[i]) /\ InWindow(feed[i]) /\ (Classified(i) \/ pc = "returned"))
        => (Reported(i) <=> /\ ResolvedClaim(i) # None
                            /\ NormalizeId(ResolvedClaim(i).v) # <<>>
                            /\ NormalizeId(ResolvedClaim(i).v) = NormalizeId(source))

\* source "A/B" and metadata claim "a/b " (other case, trailing space): reported
C4_Witness ==
    /\ pc = "returned" /\ source = <<"A","/","B">>
    /\ \E i \in 1..Len(feed) :
         /\ StringKeys(feed[i]) # {} /\ FirstStringValue(feed[i]) = <<"a","/","b"," ">>
         /\ Reported(i)

----------------------------------------------------------------------------
(* C5 *)

RECURSIVE IsSubseq(_, _)
IsSubseq(a, b) ==
    IF a = <<>> THEN TRUE
    ELSE IF b = <<>> THEN FALSE
    ELSE IF Head(a) = Head(b) THEN IsSubseq(Tail(a), Tail(b))
    ELSE IsSubseq(a, Tail(b))

\* the ids of the listing, in iteration order
RECURSIVE IdsFrom(_)
IdsFrom(i) ==
    IF i > Len(feed) THEN <<>>
    ELSE (IF HasId(feed[i]) THEN <<IdOf(feed[i])>> ELSE <<>>) \o IdsFrom(i + 1)
FeedIds == IdsFrom(1)

\* C5: the result list is at every moment a subsequence of the ids of the
\* listing in iteration order, without repetition of a position.
C5_ResultInFeedOrder == IsSubseq(results, FeedIds)

\* entry 1 matches by metadata, entry 2 by its README: the result is [1, 2]
C5_Witness ==
    /\ pc = "returned" /\ Len(feed) >= 2
    /\ HasId(feed[1]) /\ HasId(feed[2])
    /\ results = <<IdOf(feed[1]), IdOf(feed[2])>>
    /\ FetchCount(1) = 0 /\ FetchCount(2) = 1

----------------------------------------------------------------------------
(* C6 *)

\* C6: an invocation that returns has pulled every entry of the listing and
\* the window filter has yielded every in-window entry, whichever listing
\* call produced the feed and wherever out-of-window entries stand.
C6_FullScan ==
    pc = "returned"
    => /\ idx = Len(feed)
       /\ \A i \in 1..Len(feed) : InWindow(feed[i]) => i \in Range(yielded)

\* unordered fallback path, an out-of-window entry first, then a match
C6_Witness ==
    /\ pc = "returned" /\ ~sorted_call /\ Len(feed) >= 2
    /\ ~InWindow(feed[1]) /\ InWindow(feed[2]) /\ Reported(2)

----------------------------------------------------------------------------
(* C7 *)

\* C7: an examined entry whose timestamp parses is yielded if and only if
\* that timestamp is at or after now - days.
C7_WindowBoundary ==
    \A i \in 1..idx :
        (HasTimestamp(feed[i]) /\ Parses(TimestampOf(feed[i])))
        => (i \in Range(yielded) <=> AtOrAfterCutoff(TimestampOf(feed[i])))

\* one entry exactly at the cutoff (yielded), one a second earlier (left out)
C7_Witness ==
    /\ pc = "returned" /\ days = 1 /\ Len(feed) = 2
    /\ TimestampOf(feed[1]) = Dt(now.s - DaySeconds, now.us)
    /\ TimestampOf(feed[2]) = Dt(now.s - DaySeconds - 1, now.us)
    /\ yielded = <<1>>

----------------------------------------------------------------------------
(* C8 *)

\* C8: an examined entry without a creation timestamp is yielded whatever
\* days is, and its classification is that of an in-window entry: once
\* classified it is reported when its metadata claim equals the source.
C8_NoTimestampYielded ==
    \A i \in 1..idx :
        ~HasTimestamp(feed[i])
        => /\ i \in Range(yielded)
           /\ (/\ Classified(i) /\ HasId(feed[i]) /\ StringKeys(feed[i]) # {}
               /\ NormalizeId(FirstStringValue(feed[i])) # <<>>
               /\ NormalizeId(FirstStringValue(feed[i])) = NormalizeId(source))
              => Reported(i)

C8_Witness ==
    /\ pc = "returned" /\ days = 0
    /\ \E i \in 1..Len(feed) : ~HasTimestamp(feed[i]) /\ Reported(i)

----------------------------------------------------------------------------
(* C9 *)

FetchFailed(resp) == resp.kind = "RequestException" \/ resp.status_code # 200

\* C9: an entry whose README fetch failed is never reported, its loop body
\* completes without raising, and when the invocation returns every later
\* entry has been examined.
C9_FetchFailureAbsorbed ==
    \A j \in 1..Len(fetchLog) :
        FetchFailed(fetchLog[j].resp)
        => /\ ~Reported(fetchLog[j].idx)
           /\ fetchLog[j].idx \in Range(classified)
           /\ (pc = "returned" => idx = Len(feed))

\* a failed fetch for entry 1, and entry 2 still reported
C9_Witness ==
    /\ pc = "returned" /\ Len(fetchLog) >= 1
    /\ fetchLog[1].idx = 1 /\ fetchLog[1].resp.status_code = 404
    /\ Len(feed) >= 2 /\ Reported(2)

----------------------------------------------------------------------------
(* C10 *)

Unparseable(space) == HasTimestamp(space) /\ ~Parses(TimestampOf(space))

\* C10: the scan never gets past an entry whose timestamp string has neither
\* format: at that entry the invocation has raised ValueError, the entry is
\* neither yielded nor fetched, and the invocation never returns a list.
C10_ParseErrorPropagates ==
    \A i \in 1..Len(feed) :
        Unparseable(feed[i])
        => /\ idx <= i
           /\ pc # "returned"
           /\ (idx = i => pc = "raised" /\ exc = "ValueError")
           /\ \A k \in i..Len(feed) : k \notin Range(yielded) /\ FetchCount(k) = 0

\* a match was found for entry 1, then entry 2 raised: the match is lost
C10_Witness ==
    /\ pc = "raised" /\ exc = "ValueError" /\ idx = 2
    /\ Unparseable(feed[2]) /\ results # <<>>

----------------------------------------------------------------------------
(* C11 *)

\* the listing phase is over: the feed is being iterated or the call has ended
ListingOver == pc \notin {"start", "list_sorted", "list_unsorted"}

\* C11: the first listing request asks for the sorted listing; a second
\* request is made exactly when the first was rejected with a TypeError, it
\* is the plain full listing and there is never a third; the rejection is
\* not raised; and on the fallback path the entries pass the same window
\* filter and the same classification as on the sorted path.
C11_SortedThenFallback ==
    /\ Len(listCalls) <= 2
    /\ (listCalls # <<>> => listCalls[1].sort)
    /\ (ListingOver => (Len(listCalls) = 2 <=> listCalls[1].outcome = "TypeError"))
    /\ (Len(listCalls) = 2 => ~listCalls[2].sort)
    /\ ((Len(listCalls) = 1 /\ listCalls[1].outcome = "TypeError")
        => (pc = "list_unsorted" /\ exc = "none"))
    /\ ((Len(listCalls) = 2 /\ listCalls[2].outcome = "ok") => exc # "TypeError")
    /\ ((Len(listCalls) = 2 /\ pc \in {"returned", "exit0"})
        => \A i \in 1..Len(feed) :
             /\ i \in Range(yielded) <=> InWindow(feed[i])
             /\ Reported(i) <=> /\ HasId(feed[i]) /\ InWindow(feed[i])
                                /\ ResolvedClaim(i) # None
                                /\ NormalizeId(ResolvedClaim(i).v) # <<>>
                                /\ NormalizeId(ResolvedClaim(i).v) = NormalizeId(source))

\* the sorted call was rejected, the fallback listing was scanned to its end:
\* one entry was outside the window and another was reported
C11_Witness ==
    /\ pc = "returned"
    /\ Len(listCalls) = 2 /\ listCalls[1].outcome = "TypeError"
    /\ results # <<>>
    /\ \E i \in 1..Len(feed) : ~InWindow(feed[i])

----------------------------------------------------------------------------
(* C12 *)

\* listing call j failed with something the code does not handle: any error
\* but the TypeError of the sorted call
ListingFailed(j) ==
    \/ listCalls[j].outcome = "error"
    \/ (~listCalls[j].sort /\ listCalls[j].outcome = "TypeError")

\* C12: a listing call that fails with anything but the sort rejection is
\* the last listing call and its error leaves the invocation; so does an
\* error raised while the listing is iterated; once an error has left the
\* invocation nothing has been printed and nothing more happens.
C12_ListingErrorPropagates ==
    /\ \A j \in 1..Len(listCalls) :
         ListingFailed(j)
         => /\ j = Len(listCalls)
            /\ pc = "raised"
            /\ exc = (IF listCalls[j].outcome = "TypeError" THEN "TypeError" ELSE "ListingError")
    /\ (exc \in {"ListingError", "TypeError", "IterationError"} => pc = "raised")
    /\ (pc = "raised" => (output = <<>> /\ ~ENABLED Next))

\* the fallback listing failed while it was iterated, after an entry had
\* already been collected
C12_Witness ==
    /\ pc = "raised" /\ exc = "IterationError"
    /\ Len(listCalls) = 2
    /\ results # <<>>
    /\ output = <<>>

----------------------------------------------------------------------------
(* C13 *)

\* C13: a call that returned is always followed by the printing; a run has
\* either completed (exit 0) or raised, never both; when it completed with
\* matches the output is the count line, whose
\* count is the number of matches, followed by one URL line
\* https://huggingface.co/spaces/<id> per match in result order; when it
\* completed without match the output is the no-matches line alone; and
\* when an exception was raised nothing was printed.
C13_ThreeOutcomes ==
    /\ (pc = "returned" => ENABLED PrintResult)
    /\ (pc = "exit0"
        => /\ exc = "none"
           /\ IF Len(results) >= 1
              THEN /\ Len(output) = Len(results) + 1
                   /\ output[1].line = "Found"
                   /\ output[1].count = Len(results)
                   /\ \A j \in 1..Len(results) :
                        /\ output[j + 1].line = "url"
                        /\ output[j + 1].text = UrlPrefix \o results[j]
              ELSE /\ Len(output) = 1
                   /\ output[1].line = "No public Spaces")
    /\ (pc = "raised" => (exc # "none" /\ output = <<>>))
    /\ (output # <<>> => pc = "exit0")

\* a run that printed the count 2 and two URLs
C13_Witness ==
    /\ pc = "exit0"
    /\ Len(results) = 2 /\ results[1] # results[2]
    /\ Len(output) = 3 /\ output[1].count = 2

----------------------------------------------------------------------------
(* Functions of the classification applied on their own: the variables of   *)
(* the invocation stay idle, fn_in holds the argument and fn_out the        *)
(* successive results                                                       *)

call == <<feed, source, days, no_deep, deep_detection, now, src, cutoff, sorted_call,
          idx, results, yielded, fetchLog, exc, listCalls, pending, classified, output>>

Idle(p) ==
    /\ feed = <<>> /\ source = <<>> /\ days = 0 /\ no_deep = FALSE
    /\ deep_detection = TRUE /\ now = Dt(NowSecs, NowMicros)
    /\ pc = p /\ src = <<>> /\ cutoff = NoCutoff /\ sorted_call = TRUE
    /\ idx = 0 /\ results = <<>> /\ yielded = <<>> /\ fetchLog = <<>>
    /\ exc = "none" /\ listCalls = <<>> /\ pending = {} /\ classified = <<>>
    /\ output = <<>>

\* all the strings over an alphabet up to a length
RECURSIVE StringsUpTo(_, _)
StringsUpTo(alphabet, n) ==
    IF n = 0 THEN {<<>>}
    ELSE LET shorter == StringsUpTo(alphabet, n - 1)
         IN  shorter \cup { Append(s, c) : s \in shorter, c \in alphabet }

----------------------------------------------------------------------------
(* C14 *)

MaxStrLen == 3
NormChars == {"/", " ", "\t", "", " ", "A", "b", "É"}

InitNorm ==
    /\ Idle("norm")
    /\ fn_in \in StringsUpTo(NormChars, MaxStrLen)
    /\ fn_out = <<>>

\* s.strip().strip("/ ") followed by .lower(), as applied to the source
\* (finder.py:74, 94) and to the claim (finder.py:86, 92, 94); applied
\* first to the input, then to its own result
Normalize ==
    /\ pc = "norm"
    /\ Len(fn_out) < 2
    /\ fn_out' = Append(fn_out, NormalizeId(IF fn_out = <<>> THEN fn_in ELSE fn_out[Len(fn_out)]))
    /\ UNCHANGED <<call, pc, fn_in>>

NextNorm == Normalize

SpecNorm == InitNorm /\ [][NextNorm]_vars

\* C14: normalizing an already normalized string changes nothing.
C14_NormalizeIdempotent ==
    (pc = "norm" /\ Len(fn_out) = 2) => fn_out[2] = fn_out[1]

----------------------------------------------------------------------------
(* C15 *)

Absent == [t |-> "absent"]
CardValues == {Absent, IntVal(42), None, Str(ClaimSame), Str(ClaimOther), Str(<<>>)}

\* the card that holds a[i] under the i-th recognized key, when a[i] is a value
CardOf(a) ==
    Dict([k \in {MetadataKeys[i] : i \in {j \in 1..Len(MetadataKeys) : a[j] # Absent}}
            |-> a[CHOOSE i \in 1..Len(MetadataKeys) : MetadataKeys[i] = k]])

Cards == { CardOf(a) : a \in [1..Len(MetadataKeys) -> CardValues] }

\* the key loop before its first iteration
LoopStart == [consulted |-> <<>>, claim |-> None, done |-> FALSE]

InitCard ==
    /\ Idle("card")
    /\ fn_in \in Cards
    /\ fn_out = LoopStart

\* variant of CheckKey: no break, a later string value replaces the claim
CheckKeyNoBreak ==
    /\ pc = "card"
    /\ Len(fn_out.consulted) < Len(MetadataKeys)
    /\ LET key == MetadataKeys[Len(fn_out.consulted) + 1]
           hit == key \in DOMAIN fn_in.v /\ fn_in.v[key].t = "str"
       IN  fn_out' = [consulted |-> Append(fn_out.consulted, key),
                      claim |-> IF hit THEN Str(TrimId(fn_in.v[key].v)) ELSE fn_out.claim,
                      done |-> FALSE]
    /\ UNCHANGED <<call, pc, fn_in>>

\* one iteration of the key loop (finder.py:84-87): the next key is looked
\* up; a string value becomes the claim and ends the loop
CheckKey ==
    /\ pc = "card"
    /\ ~fn_out.done
    /\ Len(fn_out.consulted) < Len(MetadataKeys)
    /\ LET key == MetadataKeys[Len(fn_out.consulted) + 1]
           hit == key \in DOMAIN fn_in.v /\ fn_in.v[key].t = "str"
       IN  fn_out' = [consulted |-> Append(fn_out.consulted, key),
                      claim |-> IF hit THEN Str(TrimId(fn_in.v[key].v)) ELSE fn_out.claim,
                      done |-> hit]
    /\ UNCHANGED <<call, pc, fn_in>>

NextCard == CheckKey

SpecCard == InitCard /\ [][NextCard]_vars

\* the key loop is over
LoopOver == fn_out.done \/ Len(fn_out.consulted) = Len(MetadataKeys)

\* the positions, in priority order, of the keys present with a string value
StringPositions(card) ==
    { i \in 1..Len(MetadataKeys) :
        MetadataKeys[i] \in DOMAIN card.v /\ card.v[MetadataKeys[i]].t = "str" }

Min(S) == CHOOSE m \in S : \A n \in S : m <= n

\* C15: the keys are consulted in the order duplicated_from, duplicatedFrom,
\* duplicated-from; when the loop is over the claim is the trimmed value of
\* the first key present with a string value, the keys consulted are exactly
\* those up to that key, and without any string value all three keys were
\* consulted and there is no claim.
C15_FirstStringKeyWins ==
    pc = "card"
    => /\ fn_out.consulted = SubSeq(MetadataKeys, 1, Len(fn_out.consulted))
       /\ (LoopOver
           => /\ fn_out.claim = KeyLoop(fn_in, 1)
              /\ IF StringPositions(fn_in) = {}
                 THEN fn_out.claim = None /\ Len(fn_out.consulted) = Len(MetadataKeys)
                 ELSE LET first == Min(StringPositions(fn_in)) IN
                      /\ Len(fn_out.consulted) = first
                      /\ fn_out.claim = Str(TrimId(fn_in.v[MetadataKeys[first]].v)))

\* duplicated_from holds a number, duplicatedFrom a string and duplicated-from
\* another string: the claim is the second key's and the third was not consulted
C15_Witness ==
    /\ pc = "card" /\ LoopOver
    /\ fn_in = CardNonStr
    /\ fn_out.claim = Str(TrimId(ClaimSame))
    /\ fn_out.consulted = <<"duplicated_from", "duplicatedFrom">>

----------------------------------------------------------------------------
(* C16 *)

MaxLines == 4

LineDashes == <<"-","-","-">>
LineDashesPadded == <<" ","-","-","-"," ">>
LineKey == <<"d","u","p","l","i","c","a","t","e","d","_","f","r","o","m",":"," ","a","/","b">>
LineKeyQuoted ==
    <<" ","d","u","p","l","i","c","a","t","e","d","_","f","r","o","m",":"," ","'","o","/","x","'"," ">>
LineKeyEmpty == <<"d","u","p","l","i","c","a","t","e","d","_","f","r","o","m",":">>
LineOther == <<"t","i","t","l","e",":"," ","t">>

ReadmeLines == {LineDashes, LineDashesPadded, LineKey, LineKeyQuoted, LineKeyEmpty, LineOther}

\* the line ends a document is written with: LF, CR LF, the control
\* character 0x0b (VT), or 0x85 (NEL)
LineEnds == { <<"\n">>, <<"\r", "\n">>, <<"">>, <<"">> }

\* the text of a document given by its lines and its line end
RECURSIVE JoinLines(_, _)
JoinLines(lines, end) ==
    IF lines = <<>> THEN <<>> ELSE Head(lines) \o end \o JoinLines(Tail(lines), end)

Documents ==
    UNION { { [lines |-> ls, text |-> JoinLines(ls, end)] : ls \in [1..n -> ReadmeLines], end \in LineEnds }
            : n \in 0..MaxLines }

InitScan ==
    /\ Idle("scan")
    /\ fn_in \in Documents
    /\ fn_out = <<>>

\* readme_frontmatter_duplicated_from on a README served with status 200
Scan ==
    /\ pc = "scan"
    /\ fn_out = <<>>
    /\ fn_out' = <<readme_frontmatter_duplicated_from(Response(200, fn_in.text))>>
    /\ UNCHANGED <<call, pc, fn_in>>

NextScan == Scan

SpecScan == InitScan /\ [][NextScan]_vars

\* the scan has returned
Scanned == pc = "scan" /\ fn_out # <<>>

\* positions of the bare --- lines and of the duplicated_from: lines
DashLines(lines) == { i \in 1..Len(lines) : Strip(lines[i], Whitespace) = Dashes }
KeyLines(lines) ==
    { i \in 1..Len(lines) : StartsWith(Strip(lines[i], Whitespace), KeyPrefix) }

\* where the first frontmatter block opens and closes (past the last line
\* when it does not)
BlockOpen(lines) ==
    IF DashLines(lines) = {} THEN Len(lines) + 1 ELSE Min(DashLines(lines))
BlockClose(lines) ==
    IF DashLines(lines) \ {BlockOpen(lines)} = {} THEN Len(lines) + 1
    ELSE Min(DashLines(lines) \ {BlockOpen(lines)})

\* the duplicated_from: lines inside the first block
KeyLinesInside(lines) ==
    { i \in KeyLines(lines) : BlockOpen(lines) < i /\ i < BlockClose(lines) }

\* the text after the colon of a line, whitespace then quotes stripped
ValueAfterColon(line) ==
    Strip(Strip(AfterFirst(line, ":"), Whitespace), {"'", "\""})

\* C16: the scan returns the value (whitespace and quotes stripped, no claim
\* when nothing is left) of the first duplicated_from: line that lies after
\* the first bare --- line and before the second; it returns no claim when
\* there is no such line, whatever follows the line that closes the block.
C16_FirstBlockOnly ==
    Scanned
    => IF KeyLinesInside(fn_in.lines) = {} THEN fn_out[1] = None
       ELSE LET value == ValueAfterColon(fn_in.lines[Min(KeyLinesInside(fn_in.lines))])
            IN  fn_out[1] = (IF value = <<>> THEN None ELSE Str(value))

\* a closed block without the key, then a second block that holds it: no claim
C16_Witness ==
    /\ Scanned
    /\ fn_in.lines = <<LineDashes, LineDashes, LineDashes, LineKey>>
    /\ fn_out[1] = None

----------------------------------------------------------------------------
(* C17 *)

\* the document opens a frontmatter block and never closes it
Unclosed(lines) == Cardinality(DashLines(lines)) = 1

\* C17: a document whose frontmatter block is opened and never closed, or
\* that has no duplicated_from: line at all, yields no claim.
C17_NoClaimUnclosedOrNoKey ==
    (Scanned /\ (Unclosed(fn_in.lines) \/ KeyLines(fn_in.lines) = {}))
    => fn_out[1] = None

----------------------------------------------------------------------------
(* C18 *)

\* C18: at most one README fetch is outstanding, and only while the loop
\* waits for it on the entry it is classifying; every logged fetch is of an
\* earlier position than a fetch that follows it and than the entry now
\* being classified; an entry whose classification is over has no fetch
\* outstanding.
C18_SequentialFetches ==
    /\ Cardinality(pending) <= 1
    /\ (pending # {} => (pc = "fetching" /\ pending = {idx}))
    /\ (pc = "fetching" => pending = {idx})
    /\ \A j, k \in 1..Len(fetchLog) : j < k => fetchLog[j].idx < fetchLog[k].idx
    /\ (pc \in {"classify", "fetching"} => \A j \in 1..Len(fetchLog) : fetchLog[j].idx < idx)
    /\ \A i \in Range(classified) : i \notin pending

\* the fetch for the second entry is outstanding, the first entry's fetch
\* has returned
C18_Witness ==
    /\ pc = "fetching" /\ idx = 2 /\ pending = {2}
    /\ Len(fetchLog) = 1 /\ fetchLog[1].idx = 1

----------------------------------------------------------------------------
(* C19 *)

\* C19: idx entries have been pulled from the listing; every in-window entry
\* pulled before the last one has been classified, its README fetch
\* included, before the last one was pulled; the entry being classified is
\* the last one pulled; so at most one yielded entry is ever unclassified.
C19_LazyFeed ==
    /\ \A i \in Range(yielded) : i <= idx
    /\ \A i \in Range(yielded) : i < idx => (i \in Range(classified) /\ i \notin pending)
    /\ \A j \in 1..Len(fetchLog) : fetchLog[j].idx <= idx
    /\ (pc \in {"classify", "fetching"}
        => (idx = yielded[Len(yielded)] /\ idx \notin Range(classified)))
    /\ Len(yielded) <= Len(classified) + 1

\* the first entry has been classified with a README fetch, the second has
\* just been pulled and nothing beyond it
C19_Witness ==
    /\ pc = "classify" /\ idx = 2 /\ Len(feed) = 2
    /\ classified = <<1>> /\ Len(fetchLog) = 1

----------------------------------------------------------------------------
(* C20 *)

\* what position i alone contributes to the result: a function of the entry,
\* the trimmed source, the flag, the cutoff and the entry's own response
Contribution(i) ==
    IF ~InWindow(feed[i]) \/ ~HasId(feed[i]) THEN <<>>
    ELSE LET value == CardClaim(feed[i])
             final == IF ~Truthy(value) /\ deep_detection
                      THEN ReadmeClaim(ResponseOf(i)) ELSE value
         IN  IF Truthy(final) /\ Lower(final.v) = Lower(TrimId(source))
             THEN <<IdOf(feed[i])>> ELSE <<>>

\* the contributions of positions from..to, in order
RECURSIVE ResultOver(_, _)
ResultOver(from, to) ==
    IF from > to THEN <<>> ELSE Contribution(from) \o ResultOver(from + 1, to)

\* C20: when the call returns, the result is the concatenation of the
\* entries' own contributions; hence for every split of the feed into A
\* followed by B the result is that of A followed by that of B.
C20_ResultIsConcatenation ==
    pc \in {"returned", "exit0"}
    => \A k \in 0..Len(feed) :
         results = ResultOver(1, k) \o ResultOver(k + 1, Len(feed))

\* two entries, both reported, the first by its card and the second by its README
C20_Witness ==
    /\ pc = "returned" /\ Len(feed) = 2
    /\ results = <<IdAt(1), IdAt(2)>>
    /\ Len(fetchLog) = 1 /\ fetchLog[1].idx = 2

----------------------------------------------------------------------------
(* C21 *)

\* the code is sequential and every call it makes returns or raises
\* (requests.get has timeout=10): a step that can be taken is taken; the
\* runs are those for the source "A/B"
InitLive == Init /\ source = <<"A","/","B">>

SpecLive == InitLive /\ [][Next]_vars /\ WF_vars(Next)

\* no element occurs twice in a sequence
NoRepeat(seq) == \A j, k \in 1..Len(seq) : j # k => seq[j] # seq[k]

\* C21: every run reaches the point where find_duplicated_spaces has
\* returned or raised; it returns only once the whole feed has been pulled
\* and every in-window entry classified; entries are pulled one by one,
\* never again, and none is classified or fetched twice.
C21_RunsToCompletion ==
    /\ <>(pc \in {"returned", "raised"})
    /\ [](pc = "returned"
          => (idx = Len(feed) /\ pending = {} /\ Range(yielded) = Range(classified)))
    /\ [](NoRepeat(yielded) /\ NoRepeat(classified)
          /\ NoRepeat([j \in 1..Len(fetchLog) |-> fetchLog[j].idx]))
    /\ [][idx' = idx \/ idx' = idx + 1]_vars

\* a two-entry feed scanned to its end with a README fetch for each entry
C21_Witness ==
    /\ pc = "returned" /\ Len(feed) = 2 /\ idx = 2
    /\ Len(fetchLog) = 2 /\ classified = <<1, 2>>

----------------------------------------------------------------------------
(* Two invocations in a row against the same feed, clock and responses:     *)
(* fn_in holds the response the backend gives for the README of each feed   *)
(* position, fn_out what the first invocation was called with and returned  *)

DaysTwice == {-1, 0, 1}

BodiesTwice ==
    { Body("id", TNow, None, None, None),
      Body("id", TNow, None, CardSame, None),
      Body("id", TAtCutoff, None, None, CardSame),
      Body("id", None, None, None, None) }

ResponsesTwice == { RequestException, Response(200, ReadmeSame), Response(200, ReadmeOther) }

FeedsTwice ==
    UNION { { [i \in 1..n |-> Space(i, bs[i])] : bs \in [1..n -> BodiesTwice] }
            : n \in 0..MaxFeedLen }

InitTwice ==
    /\ feed \in FeedsTwice
    /\ source = <<"A","/","B">>
    /\ days \in DaysTwice
    /\ no_deep \in BOOLEAN
    /\ deep_detection = TRUE
    /\ now \in Nows
    /\ pc = "start"
    /\ src = source
    /\ cutoff = NoCutoff
    /\ sorted_call = TRUE
    /\ idx = 0
    /\ results = <<>>
    /\ yielded = <<>>
    /\ fetchLog = <<>>
    /\ exc = "none"
    /\ listCalls = <<>>
    /\ pending = {}
    /\ classified = <<>>
    /\ output = <<>>
    /\ fn_in \in [1..Len(feed) -> ResponsesTwice]
    /\ fn_out = <<>>

\* a step of the invocation in which the backend answers a README request
\* with the response it holds for that Space
ScriptedStep ==
    /\ Next
    /\ (pc = "fetching" => fetchLog'[Len(fetchLog')].resp = fn_in[idx])

\* find_duplicated_spaces is called a second time (finder.py:72) with days at
\* least as large: a new call frame and a new generator, the same api,
\* source and flag
Reinvoke ==
    /\ pc = "returned"
    /\ fn_out = <<>>
    /\ fn_out' = <<[days |-> days, results |-> results, feed |-> feed]>>
    /\ \E d \in DaysTwice : d >= days /\ days' = d
    /\ pc' = "start"
    /\ idx' = 0
    /\ yielded' = <<>>
    /\ fetchLog' = <<>>
    /\ classified' = <<>>
    /\ listCalls' = <<>>
    /\ UNCHANGED <<feed, source, no_deep, now, deep_detection, src, cutoff, sorted_call,
                   results, exc, pending, output, fn_in>>

NextTwice == ScriptedStep \/ Reinvoke

SpecTwice == InitTwice /\ [][NextTwice]_vars

\* the second invocation has returned
SecondReturned == pc \in {"returned", "exit0"} /\ fn_out # <<>>

----------------------------------------------------------------------------
(* C22 *)

\* C22: a second invocation with the same source, days and flag, against
\* the same feed, clock and responses, finds the feed as the first one found
\* it and returns the same list.
C22_SameInputsSameResult ==
    (SecondReturned /\ days = fn_out[1].days)
    => (feed = fn_out[1].feed /\ results = fn_out[1].results)

\* both invocations returned the two entries, one of them by its README
C22_Witness ==
    /\ SecondReturned /\ days = fn_out[1].days
    /\ Len(results) = 2 /\ Len(fetchLog) = 1
    /\ results = fn_out[1].results

----------------------------------------------------------------------------
(* C26 *)

\* C26: when a second invocation is made with days at least as large as the
\* first, everything else the same, and both return, the first list is a
\* subsequence of the second; zero and negative days included.
C26_MonotoneInDays ==
    (SecondReturned /\ fn_out[1].days <= days)
    => IsSubseq(fn_out[1].results, results)

\* days -1 reported nothing (the cutoff lies in the future); days 1 reported
\* both entries of the same feed
C26_Witness ==
    /\ SecondReturned
    /\ fn_out[1].days = -1 /\ days = 1
    /\ fn_out[1].results = <<>> /\ Len(results) = 2

----------------------------------------------------------------------------
(* C23 *)

\* runs with deep detection on, for the source "A/B"
InitClock == Init /\ source = <<"A","/","B">> /\ no_deep = FALSE

\* a day passes on the clock read by datetime.now (finder.py:51) while a
\* README request is outstanding
Tick ==
    /\ pc = "fetching"
    /\ now = TNow
    /\ now' = Dt(now.s + DaySeconds, now.us)
    /\ UNCHANGED <<feed, source, days, no_deep, deep_detection, pc, src, cutoff, sorted_call,
                   idx, results, yielded, fetchLog, exc, listCalls, pending, classified,
                   output, pure>>

NextClock == Next \/ Tick

SpecClock == InitClock /\ [][NextClock]_vars

\* the window test against a given cutoff
InWindowAt(space, cut) ==
    \/ ~HasTimestamp(space)
    \/ /\ Parses(TimestampOf(space))
       /\ \/ TimestampOf(space).s > cut.s
          \/ (TimestampOf(space).s = cut.s /\ MicrosOf(TimestampOf(space)) >= cut.us)

\* C23: once the invocation has started the cutoff is the clock at the start
\* minus days and no longer changes; every entry pulled so far was yielded
\* exactly when it is in the window against that cutoff, however far the
\* clock has moved since.
C23_CutoffFixed ==
    pc # "start"
    => /\ cutoff = MinusDays(TNow, days)
       /\ \A i \in 1..idx :
            i \in Range(yielded) <=> InWindowAt(feed[i], MinusDays(TNow, days))

\* a day passed during the first entry's README fetch; the second entry,
\* created exactly one day before the start, is still yielded with days = 1
C23_Witness ==
    /\ pc = "classify" /\ idx = 2 /\ days = 1
    /\ now = Dt(NowSecs + DaySeconds, NowMicros)
    /\ feed[2].created_at = TAtCutoff
    /\ Len(fetchLog) = 1

----------------------------------------------------------------------------
(* C24 *)

\* C24: every entry for which a README fetch was issued, returned or still
\* outstanding, was yielded by the window filter, and no such entry has a
\* creation time before the cutoff.
C24_FetchOnlyInWindow ==
    /\ \A i \in 1..Len(feed) :
         FetchCount(i) > 0
         => /\ i \in Range(yielded)
            /\ ~(HasTimestamp(feed[i]) /\ Parses(TimestampOf(feed[i]))
                 /\ ~AtOrAfterCutoff(TimestampOf(feed[i])))
    /\ pending \subseteq Range(yielded)

\* deep detection on, the scan is over: the first entry, without metadata
\* and older than the cutoff, got no fetch; the second, in the window, got one
C24_Witness ==
    /\ pc = "returned" /\ deep_detection /\ Len(feed) = 2
    /\ CardClaim(feed[1]) = None /\ HasId(feed[1]) /\ ~InWindow(feed[1])
    /\ FetchCount(1) = 0 /\ FetchCount(2) = 1

----------------------------------------------------------------------------
(* The standalone script app/scripts/find_duplicated_spaces.py, run as a    *)
(* whole against what the backend gave the packaged module: its            *)
(* iso_to_datetime, readme_frontmatter_duplicated_from and                  *)
(* find_duplicated_spaces are the same code as the package's, its           *)
(* get_recent_spaces is not                                                 *)

\* variant of ScriptWindow: the scan ends at the first Space older than the
\* cutoff, which the comments of the else branch consider
ScriptWindowBreak(space, cut) ==
    IF ~Truthy(CreatedAtRaw(space)) THEN "yield"
    ELSE IF CreatedAt(CreatedAtRaw(space)) = ValueError THEN "ValueError"
    ELSE IF DtGE(CreatedAt(CreatedAtRaw(space)), cut) THEN "yield"
    ELSE "break"

\* the loop body of the script's get_recent_spaces (find_duplicated_spaces.py:
\* 111-135): in the else branch `if "spaces_iter" in locals()` guards a try
\* whose body is `_ = api`, which changes nothing, and `continue` follows
ScriptWindow(space, cut) ==
    IF ~Truthy(CreatedAtRaw(space)) THEN "yield"
    ELSE IF CreatedAt(CreatedAtRaw(space)) = ValueError THEN "ValueError"
    ELSE IF DtGE(CreatedAt(CreatedAtRaw(space)), cut) THEN "yield"
    ELSE "continue"

\* the backend as the packaged run met it: the outcome of the j-th listing
\* call, the pull at which iterating the listing failed (0: none), and the
\* response to the README request for position i
ListOutcome(j) == IF j <= Len(listCalls) THEN listCalls[j].outcome ELSE "ok"
IterFailAt == IF exc = "IterationError" THEN idx + 1 ELSE 0
ResponseFor(i) ==
    IF \E j \in 1..Len(fetchLog) : fetchLog[j].idx = i THEN ResponseOf(i)
    ELSE RequestException

\* the listing calls of the script (find_duplicated_spaces.py:105-110): the
\* exception that leaves them, "none" when a listing was obtained
ScriptListing ==
    IF ListOutcome(1) = "ok" THEN "none"
    ELSE IF ListOutcome(1) = "TypeError"
         THEN CASE ListOutcome(2) = "ok" -> "none"
                [] ListOutcome(2) = "TypeError" -> "TypeError"
                [] OTHER -> "ListingError"
         ELSE "ListingError"

ScriptEnd(raised, res, fetched, pulled) ==
    [raised |-> raised, results |-> res, fetches |-> fetched, pulled |-> pulled]

\* the script's find_duplicated_spaces over its get_recent_spaces from feed
\* position i on (find_duplicated_spaces.py:111-167)
RECURSIVE ScriptScan(_, _, _)
ScriptScan(i, res, fetched) ==
    IF i = IterFailAt THEN ScriptEnd("IterationError", res, fetched, i - 1)
    ELSE IF i > Len(feed) THEN ScriptEnd("none", res, fetched, Len(feed))
    ELSE LET w == ScriptWindow(feed[i], MinusDays(now, days))
             space_id == SpaceId(feed[i])
             value == CardClaim(feed[i])
         IN  CASE w = "ValueError" -> ScriptEnd("ValueError", res, fetched, i)
               [] w = "break" -> ScriptEnd("none", res, fetched, i)
               [] w = "continue" -> ScriptScan(i + 1, res, fetched)
               [] OTHER ->
                    IF ~Truthy(space_id) THEN ScriptScan(i + 1, res, fetched)
                    ELSE IF NeedsFetch(value, ~no_deep)
                    THEN ScriptScan(i + 1,
                                    Collect(res, space_id, ReadmeClaim(ResponseFor(i)),
                                            TrimId(source)),
                                    Append(fetched, i))
                    ELSE ScriptScan(i + 1, Collect(res, space_id, value, TrimId(source)),
                                    fetched)

\* one call of the script's find_duplicated_spaces
ScriptRun ==
    IF ScriptListing # "none" THEN ScriptEnd(ScriptListing, <<>>, <<>>, 0)
    ELSE ScriptScan(1, <<>>, <<>>)

----------------------------------------------------------------------------
(* C25 *)

\* C25: when the packaged find_duplicated_spaces has returned or raised, the
\* script run against the same feed, arguments, clock and backend outcomes
\* raises the same exception or returns the same list, has issued the same
\* README fetches in the same order and has pulled as many entries; and a
\* call that returns has pulled the whole feed.
C25_ScriptEquivalent ==
    pc \in {"returned", "raised"}
    => /\ ScriptRun.raised = exc
       /\ (exc = "none" => ScriptRun.results = results)
       /\ ScriptRun.fetches = [j \in 1..Len(fetchLog) |-> fetchLog[j].idx]
       /\ ScriptRun.pulled = idx
       /\ (exc = "none" => idx = Len(feed))

\* both return the second entry after passing over a first entry older than
\* the cutoff, on the sorted listing
C25_Witness ==
    /\ pc = "returned" /\ sorted_call /\ Len(feed) = 2
    /\ HasTimestamp(feed[1]) /\ ~InWindow(feed[1])
    /\ results = <<IdAt(2)>>
    /\ ScriptRun.results = <<IdAt(2)>>

----------------------------------------------------------------------------
(* C27 *)

\* C27: when the source normalizes to the empty string nothing is ever
\* collected; and an entry whose resolved claim trims to the empty string is
\* never reported, whatever the source.
C27_EmptyNeverMatches ==
    /\ (NormalizeId(source) = <<>> => results = <<>>)
    /\ \A i \in 1..Len(feed) :
         (HasId(feed[i]) /\ Classified(i) /\ ResolvedClaim(i) # None
          /\ TrimId(ResolvedClaim(i).v) = <<>>)
         => ~Reported(i)

\* source "/", two entries: one whose metadata claim " / " trims to nothing
\* and whose README claims "/", which does too; the scan is over and nothing
\* was reported
C27_Witness ==
    /\ pc = "returned" /\ source = <<"/">>
    /\ \E i \in 1..Len(feed) :
         /\ HasId(feed[i]) /\ InWindow(feed[i])
         /\ StringKeys(feed[i]) # {} /\ FirstStringValue(feed[i]) = ClaimBlank
         /\ FetchCount(i) = 1 /\ ResolvedClaim(i) = Str(<<"/">>)
    /\ results = <<>>

----------------------------------------------------------------------------
(* C28 *)

\* C28: with deep detection off, an entry whose first string-valued
\* recognized key trims to the empty string is never reported, whatever its
\* other keys hold.
C28_BlankFirstKeyNotReported ==
    \A i \in 1..Len(feed) :
        (no_deep /\ HasId(feed[i]) /\ StringKeys(feed[i]) # {}
         /\ TrimId(FirstStringValue(feed[i])) = <<>>)
        => ~Reported(i)

\* source "A/B", deep detection off: the entry holds " / " under
\* duplicated_from and "a/b " under duplicated-from, and was not reported
C28_Witness ==
    /\ pc = "returned" /\ source = <<"A","/","B">> /\ no_deep
    /\ \E i \in 1..Len(feed) :
         /\ HasId(feed[i]) /\ InWindow(feed[i])
         /\ feed[i].cardData = CardBlank
         /\ NormalizeId(CardBlank.v["duplicated-from"].v) = NormalizeId(source)
         /\ i \in Range(classified) /\ ~Reported(i)

----------------------------------------------------------------------------
(* C29 *)

\* C29: a claim returned by the scan is always the value of a
\* duplicated_from: line that comes after the first bare --- line, never of
\* one that comes before it; and when the first --- line is not the first
\* line of the document, the first duplicated_from: line of the block it
\* opens still gives the claim.
C29_KeyOnlyInsideBlock ==
    Scanned
    => /\ (fn_out[1] # None
           => \E k \in KeyLines(fn_in.lines) :
                /\ k > BlockOpen(fn_in.lines)
                /\ fn_out[1] = Str(ValueAfterColon(fn_in.lines[k])))
       /\ ((\A k \in KeyLines(fn_in.lines) : k < BlockOpen(fn_in.lines))
           => fn_out[1] = None)
       /\ ((BlockOpen(fn_in.lines) > 1 /\ KeyLinesInside(fn_in.lines) # {})
           => LET value == ValueAfterColon(fn_in.lines[Min(KeyLinesInside(fn_in.lines))])
              IN  fn_out[1] = (IF value = <<>> THEN None ELSE Str(value)))

\* a duplicated_from: a/b line, then the --- line, then a quoted
\* duplicated_from: 'o/x' line: the claim is o/x
C29_Witness ==
    /\ Scanned
    /\ fn_in.lines = <<LineKey, LineDashes, LineKeyQuoted>>
    /\ fn_out[1] = Str(<<"o","/","x">>)

----------------------------------------------------------------------------
(* C30 *)

\* the feed positions that carry an id, in feed order
RECURSIVE PositionsWithId(_)
PositionsWithId(n) ==
    IF n = 0 THEN <<>>
    ELSE IF HasId(feed[n]) THEN Append(PositionsWithId(n - 1), n)
    ELSE PositionsWithId(n - 1)

\* the contributions of the given positions, in order
RECURSIVE ResultOf(_)
ResultOf(positions) ==
    IF positions = <<>> THEN <<>>
    ELSE Contribution(Head(positions)) \o ResultOf(Tail(positions))

\* C30: no README fetch is ever issued for an entry without id, every
\* reported id is the id of an entry that has one, and when the call returns
\* the result is what the entries with an id contribute, as if the entries
\* without id were not in the feed.
C30_IdlessSkipped ==
    /\ \A i \in 1..Len(feed) : ~HasId(feed[i]) => (FetchCount(i) = 0 /\ i \notin pending)
    /\ \A j \in 1..Len(results) :
         \E i \in 1..Len(feed) : HasId(feed[i]) /\ IdOf(feed[i]) = results[j]
    /\ (pc \in {"returned", "exit0"} => results = ResultOf(PositionsWithId(Len(feed))))

\* deep detection on: the first entry has no id and no metadata and got no
\* fetch; the second was fetched and reported
C30_Witness ==
    /\ pc = "returned" /\ deep_detection /\ Len(feed) = 2
    /\ ~HasId(feed[1]) /\ InWindow(feed[1]) /\ 1 \in Range(classified)
    /\ FetchCount(1) = 0
    /\ FetchCount(2) = 1 /\ results = <<IdAt(2)>>

====
